---- MODULE Spec2Model ----
(***************************************************************************)
(* Model of the flow engine of pathfinder2: the EdgeDB (types/edge.rs),    *)
(* the lazily lifted flow network (graph/adjacencies.rs) and compute_flow  *)
(* with its Dinic driver and its post-processing (graph/flow.rs).          *)
(*                                                                         *)
(* Addresses are the integers 1..NumAddr (their order is the order of      *)
(* Address).  A U256 is an integer modulo 2^UBits: the code negates a U256 *)
(* (adjacencies.rs:135) and adds the result (adjacencies.rs:175), which is *)
(* two's complement arithmetic.  Option<T> is a sequence of length at most *)
(* one; a HashMap is a function whose DOMAIN is its key set.               *)
(***************************************************************************)
EXTENDS Integers, Sequences, FiniteSets, TLC

\* ------------------------------------------------------------------ bounds
NumAddr == 3
MaxCap == 2
MaxRows == 2
UBits == 3
MaxDist == 2
NumTokens == 2

Address == 1..NumAddr
\* A token is named by the address of its owner.
Token == 1..NumTokens
UMod == 2^UBits
U256_MAX == UMod - 1
U256 == 0..U256_MAX

None == << >>
Some(x) == << x >>
EmptyMap == << >>

UAdd(a, b) == (a + b) % UMod
USub(a, b) == (a - b + UMod) % UMod
UNeg(a) == (UMod - a) % UMod
\* The one element of a singleton set: The({e(x) : x \in {v}}) is e with x
\* bound to v, the way a let binding of the source holds a computed value.
The(S) == CHOOSE x \in S : TRUE

Min2(a, b) == IF a <= b THEN a ELSE b
Max2(a, b) == IF a >= b THEN a ELSE b

\* m with key k set to v (HashMap::insert).
Put(m, k, v) == [x \in (DOMAIN m) \cup {k} |-> IF x = k THEN v ELSE m[x]]
\* m without key k (HashMap::remove).
Del(m, k) == [x \in (DOMAIN m) \ {k} |-> m[x]]

\* ------------------------------------------------------------ lifted nodes
\* enum Node, as flow.rs and adjacencies.rs use it: Node(addr),
\* BalanceNode(from, token), TrustNode(to, token).  A node is the triple
\* <<variant, address, token>>; the variants are numbered in the order of
\* their declaration (TrustNode before BalanceNode), the plain Node first.
IsNode(n) == n[1] = 0
IsTrustNode(n) == n[1] = 1
IsBalanceNode(n) == n[1] = 2
NodeNode(a) == << 0, a, 0 >>
TrustNode(a, t) == << 1, a, t >>
BalanceNode(a, t) == << 2, a, t >>

balance_node(e) == BalanceNode(e.from, e.token)
trust_node(e) == TrustNode(e.to, e.token)
as_trust_node(n) == [to |-> n[2], token |-> n[3]]

\* The derived order of Node: the variant first, then the components.
NodeLess(m, n) ==
    \/ m[1] < n[1]
    \/ m[1] = n[1] /\ m[2] < n[2]
    \/ m[1] = n[1] /\ m[2] = n[2] /\ m[3] < n[3]

NodeLeq(m, n) == m = n \/ NodeLess(m, n)

\* The least node of a non-empty set, and the set as an ascending sequence.
MinNode(S) == CHOOSE m \in S : \A n \in S : NodeLeq(m, n)

RECURSIVE NodeSeq(_)
NodeSeq(S) ==
    IF S = {} THEN << >>
    ELSE LET m == MinNode(S) IN << m >> \o NodeSeq(S \ {m})

\* ------------------------------------------------------------------ EdgeDB
Indices(es) == [i \in 1..Len(es) |-> i]

outgoing_index(es) ==
    [n \in {es[i].from : i \in 1..Len(es)} |->
        SelectSeq(Indices(es), LAMBDA i : es[i].from = n)]

incoming_index(es) ==
    [n \in {es[i].to : i \in 1..Len(es)} |->
        SelectSeq(Indices(es), LAMBDA i : es[i].to = n)]

EdgeDB_new(es) ==
    [edges |-> es, outgoing |-> outgoing_index(es), incoming |-> incoming_index(es)]

RowsAt(db, idx) == [k \in 1..Len(idx) |-> db.edges[idx[k]]]

EdgeDB_outgoing(db, a) ==
    IF a \in DOMAIN db.outgoing
    THEN SelectSeq(RowsAt(db, db.outgoing[a]), LAMBDA e : e.capacity # 0)
    ELSE << >>

EdgeDB_incoming(db, a) ==
    IF a \in DOMAIN db.incoming
    THEN SelectSeq(RowsAt(db, db.incoming[a]), LAMBDA e : e.capacity # 0)
    ELSE << >>

eq_up_to_capacity(e1, e2) ==
    e1.from = e2.from /\ e1.to = e2.to /\ e1.token = e2.token

\* index_of: the first position listed for e.from whose row has e's triple.
index_of(db, e) ==
    IF e.from \notin DOMAIN db.outgoing THEN None
    ELSE LET out == db.outgoing[e.from]
             hits == {k \in 1..Len(out) : eq_up_to_capacity(db.edges[out[k]], e)}
         IN  IF hits = {} THEN None
             ELSE Some(out[CHOOSE k \in hits : \A h \in hits : k <= h])

\* entry(n).or_default().push(i) on an index.
IndexPush(index, n, i) ==
    Put(index, n, Append(IF n \in DOMAIN index THEN index[n] ELSE << >>, i))

\* update without the push to the incoming index.
EdgeDB_update_outgoing_only(db, update) ==
    IF index_of(db, update) # None
    THEN [db EXCEPT !.edges[index_of(db, update)[1]].capacity = update.capacity]
    ELSE [edges |-> Append(db.edges, update),
          outgoing |-> IndexPush(db.outgoing, update.from, Len(db.edges) + 1),
          incoming |-> db.incoming]

\* EdgeDB::update: the capacity of the row found is replaced, or the row is
\* appended and its position pushed to both indices.
EdgeDB_update(db, update) ==
    IF index_of(db, update) # None
    THEN [db EXCEPT !.edges[index_of(db, update)[1]].capacity = update.capacity]
    ELSE [edges |-> Append(db.edges, update),
          outgoing |-> IndexPush(db.outgoing, update.from, Len(db.edges) + 1),
          incoming |-> IndexPush(db.incoming, update.to, Len(db.edges) + 1)]

\* ------------------------------------------------------------- Adjacencies
\* The three arms of the closure in adjacencies_from, each a loop over the
\* rows in index order.
RECURSIVE FromNode(_, _)
FromNode(rows, result) ==
    IF rows = << >> THEN result
    ELSE LET edge == Head(rows)
             k == balance_node(edge)
         IN  FromNode(Tail(rows),
                 IF k \in DOMAIN result
                 THEN (IF edge.capacity > result[k]
                       THEN Put(result, k, edge.capacity) ELSE result)
                 ELSE Put(result, k, edge.capacity))

RECURSIVE FromBalanceNode(_, _, _, _)
FromBalanceNode(rows, from, token, result) ==
    IF rows = << >> THEN result
    ELSE LET edge == Head(rows)
         IN  FromBalanceNode(Tail(rows), from, token,
                 IF edge.from = from /\ edge.token = token
                 THEN Put(result, trust_node(edge), edge.capacity)
                 ELSE result)

RECURSIVE FromTrustNode(_, _, _, _, _)
FromTrustNode(rows, to, token, capacity, result) ==
    IF rows = << >> THEN result
    ELSE LET edge == Head(rows)
             is_return_to_owner == (to = token)
             c == IF edge.token = token
                  THEN (IF is_return_to_owner
                        THEN UAdd(capacity, edge.capacity)
                        ELSE Max2(capacity, edge.capacity))
                  ELSE capacity
         IN  FromTrustNode(Tail(rows), to, token, c, Put(result, NodeNode(to), c))

\* The closure of adjacencies_from (lines 192-236): the nominal capacities of
\* the lifted edges leaving a node.
NominalAdjacencies(db, from) ==
    CASE IsNode(from) -> FromNode(EdgeDB_outgoing(db, from[2]), EmptyMap)
      [] IsBalanceNode(from) ->
            FromBalanceNode(EdgeDB_outgoing(db, from[2]), from[2], from[3], EmptyMap)
      [] OTHER ->
            FromTrustNode(EdgeDB_incoming(db, from[2]), from[2], from[3], 0, EmptyMap)

\* adjacencies_from as it would be if it added the overlay to the nominal
\* capacities, the way lines 156-160 do for the sorted variant.
adjacencies_from_adjusted(self, from) ==
    LET nominal == NominalAdjacencies(self.edges, from)
        adj == IF from \in DOMAIN self.capacity_adjustments
               THEN self.capacity_adjustments[from] ELSE EmptyMap
    IN  [n \in (DOMAIN nominal) \cup (DOMAIN adj) |->
            UAdd(IF n \in DOMAIN nominal THEN nominal[n] ELSE 0,
                 IF n \in DOMAIN adj THEN adj[n] ELSE 0)]

\* adjacencies_from on self = [edges, capacity_adjustments].  The entry of
\* lazy_adjacencies is a function of the EdgeDB, which compute_flow borrows
\* immutably, so the cache is not kept as state.  The result does not read
\* self.capacity_adjustments.
adjacencies_from(self, from) == NominalAdjacencies(self.edges, from)

\* adjust_capacity: the signed delta is added to the overlay entry.
adjust_capacity(adj, from, to, adjustment) ==
    LET inner == IF from \in DOMAIN adj THEN adj[from] ELSE EmptyMap
        old == IF to \in DOMAIN inner THEN inner[to] ELSE 0
    IN  Put(adj, from, Put(inner, to, UAdd(old, adjustment)))

\* The for loop of bfs_level_graph over the neighbours of current.  The
\* HashMap is walked in ascending node order: the levels found do not depend
\* on the order, only the order of the queue within one level does.
RECURSIVE BfsNeighbors(_, _, _, _, _)
BfsNeighbors(nbrs, caps, current, levels, queue) ==
    IF nbrs = << >> THEN [levels |-> levels, queue |-> queue]
    ELSE LET neighbor == Head(nbrs)
         IN  IF neighbor \notin DOMAIN levels /\ caps[neighbor] > 0
             THEN BfsNeighbors(Tail(nbrs), caps, current,
                      Put(levels, neighbor, levels[current] + 1),
                      Append(queue, neighbor))
             ELSE BfsNeighbors(Tail(nbrs), caps, current, levels, queue)

\* The while loop of bfs_level_graph without the test of lines 70-74.
RECURSIVE BfsLoop_unbounded(_, _, _, _)
BfsLoop_unbounded(self, max_dist, levels, queue) ==
    IF queue = << >> THEN levels
    ELSE The({BfsLoop_unbounded(self, max_dist, st.levels, st.queue) :
                st \in {The({BfsNeighbors(NodeSeq(DOMAIN caps), caps, Head(queue),
                                          levels, Tail(queue)) :
                               caps \in {adjacencies_from(self, Head(queue))}})}})

\* The while loop of bfs_level_graph.
RECURSIVE BfsLoop(_, _, _, _)
BfsLoop(self, max_dist, levels, queue) ==
    IF queue = << >> THEN levels
    ELSE IF max_dist # None /\ levels[Head(queue)] >= max_dist[1]
         THEN BfsLoop(self, max_dist, levels, Tail(queue))
         ELSE The({BfsLoop(self, max_dist, st.levels, st.queue) :
                     st \in {The({BfsNeighbors(NodeSeq(DOMAIN caps), caps, Head(queue),
                                               levels, Tail(queue)) :
                                    caps \in {adjacencies_from(self, Head(queue))}})}})

\* bfs_level_graph without the test of line 84.
bfs_level_graph_unchecked(self, src, snk, max_dist) ==
    Some(BfsLoop(self, max_dist, Put(EmptyMap, src, 0), << src >>))

bfs_level_graph(self, src, snk, max_dist) ==
    The({IF snk \in DOMAIN lv THEN Some(lv) ELSE None :
           lv \in {BfsLoop(self, max_dist, Put(EmptyMap, src, 0), << src >>)}})

\* dfs_search_blocking_flow.  The neighbours of a node come in the iteration
\* order of a HashMap, which the code does not fix, so one call has several
\* possible outcomes.  A neighbour passes the test of line 122 when it has a
\* level, the level is the next one and its nominal capacity is positive.
DfsAdmissible(self, lv, current) ==
    The({{n \in DOMAIN caps :
            n \in DOMAIN lv /\ lv[n] = lv[current] + 1 /\ caps[n] > 0} :
           caps \in {adjacencies_from(self, current)}})

\* The paths a call at current can return through: current, ..., sink.
RECURSIVE DfsPaths(_, _, _, _)
DfsPaths(self, lv, snk, current) ==
    IF current = snk THEN {<< snk >>}
    ELSE UNION {{<< current >> \o p : p \in DfsPaths(self, lv, snk, n)} :
                    n \in DfsAdmissible(self, lv, current)}

\* The nodes a call at current can recurse into before it returns.
RECURSIVE DfsVisited(_, _, _, _)
DfsVisited(self, lv, snk, current) ==
    IF current = snk THEN {snk}
    ELSE {current} \cup
         UNION {DfsVisited(self, lv, snk, n) : n \in DfsAdmissible(self, lv, current)}

\* levels[&neighbor] of line 122 aborts on a neighbour without a level.
DfsCanPanic(self, lv, src, snk) ==
    \E u \in DfsVisited(self, lv, snk, src) \ {snk} :
        \E n \in DOMAIN adjacencies_from(self, u) : n \notin DOMAIN lv

\* The flow a call returns along path p: min of U256::MAX and the nominal
\* capacities on the way (lines 117 and 124).
RECURSIVE PathFlow(_, _, _, _)
PathFlow(self, p, i, flow) ==
    IF i >= Len(p) THEN flow
    ELSE PathFlow(self, p, i + 1, Min2(flow, adjacencies_from(self, p[i])[p[i + 1]]))

\* Lines 135-143 for every edge of the path, from the sink back to the source.
RECURSIVE DfsUnwind(_, _, _, _)
DfsUnwind(p, i, path_flow, st) ==
    IF i = 0 THEN st
    ELSE The({DfsUnwind(p, i - 1, path_flow, nx) :
                nx \in {[adj |-> adjust_capacity(
                                    adjust_capacity(st.adj, p[i], p[i + 1],
                                                    UNeg(path_flow)),
                                    p[i + 1], p[i], path_flow),
                         fd |-> adjust_capacity(st.fd, p[i], p[i + 1], path_flow)]}})

\* The outcomes of dfs_search_blocking_flow(source, sink, levels, U256::MAX).
DfsOutcomesOf(paths, can_panic) ==
    {[kind |-> "some", path |-> p] : p \in paths}
        \cup (IF paths = {} /\ ~can_panic
              THEN {[kind |-> "none", path |-> << >>]} ELSE {})
        \cup (IF can_panic THEN {[kind |-> "panic", path |-> << >>]} ELSE {})

DfsOutcomes(self, lv, src, snk) ==
    The({DfsOutcomesOf(q[1], q[2]) :
           q \in {<< DfsPaths(self, lv, snk, src), DfsCanPanic(self, lv, src, snk) >>}})

\* ------------------------------------------------- flow distribution
\* used_edges: HashMap<Node, HashMap<Node, U256>>.  An outer key may hold an
\* empty inner map (reduce_capacity removes only the inner entry).
AllEdges(used) == UNION {{<< a, b >> : b \in DOMAIN used[a]} : a \in DOMAIN used}

HasEdge(used, a, b) == a \in DOMAIN used /\ b \in DOMAIN used[a]

\* The key (capacity, node) of the min_by_key calls, in its derived order.
KeyLess(c1, n1, c2, n2) == c1 < c2 \/ (c1 = c2 /\ NodeLess(n1, n2))

\* The key (capacity, (a, b)) of smallest_edge_in_set and reduce_transfers.
EdgeKeyLess(c1, e1, c2, e2) ==
    \/ c1 < c2
    \/ c1 = c2 /\ NodeLess(e1[1], e2[1])
    \/ c1 = c2 /\ e1[1] = e2[1] /\ NodeLess(e1[2], e2[2])

reduce_capacity(used, a, b, reduction) ==
    LET v == USub(used[a][b], reduction)
    IN  IF v = 0
        THEN [used EXCEPT ![a] = Del(used[a], b)]
        ELSE [used EXCEPT ![a][b] = v]

smallest_edge_from(used, n) ==
    IF n \notin DOMAIN used \/ DOMAIN used[n] = {} THEN None
    ELSE LET out == used[n]
             t == CHOOSE x \in DOMAIN out :
                    \A y \in DOMAIN out : x = y \/ KeyLess(out[x], x, out[y], y)
         IN  Some([node |-> t, capacity |-> out[t]])

smallest_edge_to(used, n) ==
    LET srcs == {t \in DOMAIN used : n \in DOMAIN used[t]}
    IN  IF srcs = {} THEN None
        ELSE LET t == CHOOSE x \in srcs :
                        \A y \in srcs : x = y \/ KeyLess(used[x][n], x, used[y][n], y)
             IN  Some([node |-> t, capacity |-> used[t][n]])

smallest_edge_in_set(all_edges, edge_set) ==
    LET live == {e \in edge_set : HasEdge(all_edges, e[1], e[2])}
    IN  IF live = {} THEN None
        ELSE Some(CHOOSE x \in live : \A y \in live :
                    x = y \/ EdgeKeyLess(all_edges[x[1]][x[2]], x,
                                         all_edges[y[1]][y[2]], y))

\* prune_path: direction is "Forwards" or "Backwards".  One turn of the
\* while loop: the smallest edge at n is reduced by capacity, the recursive
\* call follows it from next, and the loop goes on at n with the rest.
RECURSIVE prune_path(_, _, _, _)
PrunePathRest(used, n, rest, direction) ==
    IF rest = 0 THEN used ELSE prune_path(used, n, rest, direction)

PrunePathTurn(used, n, flow_to_prune, direction, next, capacity) ==
    PrunePathRest(
        prune_path(IF direction = "Forwards"
                   THEN reduce_capacity(used, n, next, capacity)
                   ELSE reduce_capacity(used, next, n, capacity),
                   next, capacity, direction),
        n, flow_to_prune - capacity, direction)

PrunePathAt(used, n, flow_to_prune, direction, sm) ==
    IF sm = None THEN used
    ELSE PrunePathTurn(used, n, flow_to_prune, direction, sm[1].node,
                       Min2(flow_to_prune, sm[1].capacity))

prune_path(used, n, flow_to_prune, direction) ==
    PrunePathAt(used, n, flow_to_prune, direction,
                IF direction = "Forwards"
                THEN smallest_edge_from(used, n) ELSE smallest_edge_to(used, n))

\* prune_edge without the pruning back towards the source (line 394).
PruneEdgeBy_forwards_only(used, a, b, flow_to_prune, edge_size) ==
    [used |-> prune_path(reduce_capacity(used, a, b, edge_size),
                         b, edge_size, "Forwards"),
     rest |-> flow_to_prune - edge_size]

\* prune_edge: the distribution after the call and the returned remainder.
PruneEdgeBy(used, a, b, flow_to_prune, edge_size) ==
    [used |-> prune_path(prune_path(reduce_capacity(used, a, b, edge_size),
                                    b, edge_size, "Forwards"),
                         a, edge_size, "Backwards"),
     rest |-> flow_to_prune - edge_size]

prune_edge(used, a, b, flow_to_prune) ==
    PruneEdgeBy(used, a, b, flow_to_prune, Min2(flow_to_prune, used[a][b]))

\* distance_from_source: the for loop over the out-edges of n and the while
\* loop over the queue.  The distances do not depend on the HashMap order.
RECURSIVE DistNeighbors(_, _, _, _, _)
DistNeighbors(nbrs, out, n, distances, to_process) ==
    IF nbrs = << >> THEN [distances |-> distances, to_process |-> to_process]
    ELSE LET t == Head(nbrs)
         IN  IF out[t] > 0 /\ t \notin DOMAIN distances
             THEN DistNeighbors(Tail(nbrs), out, n,
                      Put(distances, t, distances[n] + 1), Append(to_process, t))
             ELSE DistNeighbors(Tail(nbrs), out, n, distances, to_process)

RECURSIVE DistLoop(_, _, _)
DistLoop(used, distances, to_process) ==
    IF to_process = << >> THEN distances
    ELSE LET n == Head(to_process)
             out == IF n \in DOMAIN used THEN used[n] ELSE EmptyMap
             st == DistNeighbors(NodeSeq(DOMAIN out), out, n, distances,
                                 Tail(to_process))
         IN  DistLoop(used, st.distances, st.to_process)

distance_from_source(src, used) == DistLoop(used, Put(EmptyMap, src, 0), << src >>)

reverse_edges(used) ==
    LET tos == {e[2] : e \in AllEdges(used)}
    IN  [t \in tos |-> [n \in {m \in DOMAIN used : t \in DOMAIN used[m]} |-> used[n][t]]]

distance_to_sink(snk, used) == distance_from_source(snk, reverse_edges(used))

\* compute_edges_by_path_length: ok is FALSE when an index of line 274 has
\* no entry (the call aborts); by_len maps each key, the negative path
\* length, to its set of edges.
EdgesByLength(from_source, to_sink, es) ==
    IF \E e \in es : e[1] \notin DOMAIN from_source \/ e[2] \notin DOMAIN to_sink
    THEN [ok |-> FALSE, by_len |-> EmptyMap]
    ELSE [ok |-> TRUE,
          by_len |-> [k \in {0 - (from_source[e[1]] + 1 + to_sink[e[2]]) : e \in es} |->
                        {e \in es : 0 - (from_source[e[1]] + 1 + to_sink[e[2]]) = k}]]

compute_edges_by_path_length(src, snk, used) ==
    EdgesByLength(distance_from_source(NodeNode(src), used),
                  distance_to_sink(NodeNode(snk), used), AllEdges(used))

\* A set of integers as an ascending sequence (the key order of a BTreeMap).
RECURSIVE IntSeq(_)
IntSeq(S) ==
    IF S = {} THEN << >>
    ELSE LET m == CHOOSE x \in S : \A y \in S : x <= y
         IN  << m >> \o IntSeq(S \ {m})

\* The while loop of prune_flow on one bucket (lines 206-216).
RECURSIVE PruneWhile(_, _, _)
PruneWhileAt(used, flow_to_prune, edges_here, sm) ==
    IF sm = None THEN [used |-> used, rest |-> flow_to_prune]
    ELSE IF used[sm[1][1]][sm[1][2]] > flow_to_prune
         THEN [used |-> used, rest |-> flow_to_prune]
         ELSE The({PruneWhile(r.used, r.rest, edges_here) :
                     r \in {prune_edge(used, sm[1][1], sm[1][2], flow_to_prune)}})

PruneWhile(used, flow_to_prune, edges_here) ==
    IF ~(flow_to_prune > 0 /\ edges_here # {})
    THEN [used |-> used, rest |-> flow_to_prune]
    ELSE PruneWhileAt(used, flow_to_prune, edges_here,
                      smallest_edge_in_set(used, edges_here))

\* The first for loop of prune_flow over the buckets (lines 202-217).
RECURSIVE PruneBuckets(_, _, _, _)
PruneBuckets(keys, by_len, used, flow_to_prune) ==
    IF keys = << >> THEN [used |-> used, rest |-> flow_to_prune]
    ELSE The({PruneBuckets(Tail(keys), by_len, r.used, r.rest) :
                r \in {PruneWhile(used, flow_to_prune, by_len[Head(keys)])}})

\* The final stage (lines 220-236) over the edges in the order they are met.
RECURSIVE PruneFinal(_, _, _)
PruneFinal(es, used, flow_to_prune) ==
    IF es = << >> THEN [used |-> used, rest |-> flow_to_prune]
    ELSE IF ~HasEdge(used, Head(es)[1], Head(es)[2])
         THEN PruneFinal(Tail(es), used, flow_to_prune)
         ELSE The({IF r.rest = 0 THEN r ELSE PruneFinal(Tail(es), r.used, r.rest) :
                     r \in {prune_edge(used, Head(es)[1], Head(es)[2], flow_to_prune)}})

\* The concatenation of the buckets, each in the order ord gives its edges.
RECURSIVE BucketSeq(_, _, _)
BucketSeq(keys, by_len, ord) ==
    IF keys = << >> THEN << >>
    ELSE SelectSeq(ord, LAMBDA e : e \in by_len[Head(keys)])
         \o BucketSeq(Tail(keys), by_len, ord)

\* prune_flow.  ord lists the edges of used_edges: within a bucket, a
\* HashSet, the final stage meets them in that order.
PruneStages(keys, by_len, used, flow_to_prune, ord) ==
    The({IF r1.rest > 0
         THEN PruneFinal(BucketSeq(keys, by_len, ord), r1.used, r1.rest)
         ELSE r1 :
           r1 \in {PruneBuckets(keys, by_len, used, flow_to_prune)}})

prune_flow(src, snk, flow_to_prune, used, ord) ==
    The({IF ~bl.ok THEN [ok |-> FALSE, used |-> used, rest |-> flow_to_prune]
         ELSE The({[ok |-> TRUE, used |-> r2.used, rest |-> r2.rest] :
                     r2 \in {PruneStages(IntSeq(DOMAIN bl.by_len), bl.by_len, used,
                                         flow_to_prune, ord)}}) :
           bl \in {compute_edges_by_path_length(src, snk, used)}})

\* reduce_transfers: the distribution after the call and the lost flow.
RECURSIVE ReduceLoop(_, _, _)
ReduceSmallest(used, all) ==
    CHOOSE x \in all : \A y \in all :
        x = y \/ EdgeKeyLess(used[x[1]][x[2]], x, used[y[1]][y[2]], y)

ReduceLoop(limit, used, reduced_flow) ==
    IF ~(Cardinality(DOMAIN used) > limit)
    THEN [used |-> used, lost |-> reduced_flow]
    ELSE IF Cardinality(AllEdges(used)) <= limit
         THEN [used |-> used, lost |-> reduced_flow]
         ELSE The({ReduceLoop(limit,
                              prune_edge(used, e[1], e[2], used[e[1]][e[2]]).used,
                              UAdd(reduced_flow, used[e[1]][e[2]])) :
                     e \in {ReduceSmallest(used, AllEdges(used))}})

reduce_transfers(limit, used) == ReduceLoop(limit, used, 0)

\* ----------------------------------------------------------- transfers
\* The derived order of Edge: from, to, token, capacity.
EdgeLess(x, y) ==
    \/ x.from < y.from
    \/ x.from = y.from /\ x.to < y.to
    \/ x.from = y.from /\ x.to = y.to /\ x.token < y.token
    \/ x.from = y.from /\ x.to = y.to /\ x.token = y.token /\ x.capacity < y.capacity

\* The candidates of one account without the filter on the balance.
AccountCandidates_any_flow(used, account, balance) ==
    IF NodeNode(account) \notin DOMAIN used THEN [ok |-> TRUE, edges |-> {}]
    ELSE LET mids == DOMAIN used[NodeNode(account)]
         IN  IF \E m \in mids : m \notin DOMAIN used
             THEN [ok |-> FALSE, edges |-> {}]
             ELSE LET hits == UNION {{<< m, t >> : t \in DOMAIN used[m]} : m \in mids}
                  IN  IF \E h \in hits : ~IsTrustNode(h[2])
                      THEN [ok |-> FALSE, edges |-> {}]
                      ELSE [ok |-> TRUE,
                            edges |-> {[from |-> account,
                                        to |-> as_trust_node(h[2]).to,
                                        token |-> as_trust_node(h[2]).token,
                                        capacity |-> used[h[1]][h[2]]] : h \in hits}]

\* The candidates of one account in next_full_capacity_edge (lines 477-494);
\* ok is FALSE when used_edges[intermediate] has no entry or as_trust_node
\* meets another variant (both abort).
AccountCandidates(used, account, balance) ==
    IF NodeNode(account) \notin DOMAIN used THEN [ok |-> TRUE, edges |-> {}]
    ELSE LET mids == DOMAIN used[NodeNode(account)]
         IN  IF \E m \in mids : m \notin DOMAIN used
             THEN [ok |-> FALSE, edges |-> {}]
             ELSE LET hits == UNION {{<< m, t >> : t \in {x \in DOMAIN used[m] :
                                                    balance >= used[m][x]}} : m \in mids}
                  IN  IF \E h \in hits : ~IsTrustNode(h[2])
                      THEN [ok |-> FALSE, edges |-> {}]
                      ELSE [ok |-> TRUE,
                            edges |-> {[from |-> account,
                                        to |-> as_trust_node(h[2]).to,
                                        token |-> as_trust_node(h[2]).token,
                                        capacity |-> used[h[1]][h[2]]] : h \in hits}]

\* next_full_capacity_edge over the accounts in ascending order; kind is
\* "edge" or "panic".
RECURSIVE NextFullFrom(_, _, _)
NextFullFrom(used, account_balances, accounts) ==
    IF accounts = << >> THEN [kind |-> "panic"]
    ELSE LET c == AccountCandidates(used, Head(accounts), account_balances[Head(accounts)])
         IN  IF ~c.ok THEN [kind |-> "panic"]
             ELSE IF c.edges # {}
                  THEN [kind |-> "edge",
                        edge |-> CHOOSE x \in c.edges :
                                    \A y \in c.edges : x = y \/ EdgeLess(x, y)]
                  ELSE NextFullFrom(used, account_balances, Tail(accounts))

next_full_capacity_edge(used, account_balances) ==
    NextFullFrom(used, account_balances, IntSeq(DOMAIN account_balances))

\* The while loop of extract_transfers; ok is FALSE when the call aborts.
RECURSIVE ExtractLoop(_, _, _, _)
ExtractEdge(snk, used, account_balances, transfers, edge) ==
    LET b1 == [account_balances EXCEPT ![edge.from] = USub(@, edge.capacity)]
        b2 == Put(b1, edge.to,
                  UAdd(IF edge.to \in DOMAIN b1 THEN b1[edge.to] ELSE 0,
                       edge.capacity))
        b3 == [a \in {x \in DOMAIN b2 : b2[x] > 0} |-> b2[a]]
        bn == BalanceNode(edge.from, edge.token)
        tn == TrustNode(edge.to, edge.token)
    IN  IF ~HasEdge(used, bn, tn)
        THEN [ok |-> FALSE, transfers |-> transfers, used |-> used,
              account_balances |-> b3]
        ELSE ExtractLoop(snk, [used EXCEPT ![bn] = Del(used[bn], tn)],
                         b3, Append(transfers, edge))

ExtractLoop(snk, used, account_balances, transfers) ==
    IF ~(account_balances # EmptyMap /\ (Cardinality(DOMAIN account_balances) > 1
                                         \/ snk \notin DOMAIN account_balances))
    THEN [ok |-> TRUE, transfers |-> transfers, used |-> used,
          account_balances |-> account_balances]
    ELSE The({IF n.kind = "panic"
              THEN [ok |-> FALSE, transfers |-> transfers, used |-> used,
                    account_balances |-> account_balances]
              ELSE ExtractEdge(snk, used, account_balances, transfers, n.edge) :
                n \in {next_full_capacity_edge(used, account_balances)}})

extract_transfers(src, snk, amount, used) ==
    ExtractLoop(snk, used, Put(EmptyMap, src, amount), << >>)

\* The test of line 507 without the comparison of the tokens.
PairOk_any_token(transfers, i, j) ==
    /\ i # j
    /\ transfers[i].to = transfers[j].from
    /\ transfers[i].capacity = transfers[j].capacity

\* The test of line 507 without the comparison of the capacities.
PairOk_any_capacity(transfers, i, j) ==
    /\ i # j
    /\ transfers[i].to = transfers[j].from
    /\ transfers[i].token = transfers[j].token

\* find_pair_to_simplify: the first pair in the order (0,0), (0,1), ...
PairOk(transfers, i, j) ==
    /\ i # j
    /\ transfers[i].to = transfers[j].from
    /\ transfers[i].token = transfers[j].token
    /\ transfers[i].capacity = transfers[j].capacity

find_pair_to_simplify(transfers) ==
    LET l == Len(transfers)
        hits == {p \in (1..l) \X (1..l) : PairOk(transfers, p[1], p[2])}
    IN  IF hits = {} THEN None
        ELSE Some(CHOOSE p \in hits : \A q \in hits :
                    p[1] < q[1] \/ (p[1] = q[1] /\ p[2] <= q[2]))

RemoveAt(seq, j) == SubSeq(seq, 1, j - 1) \o SubSeq(seq, j + 1, Len(seq))

RECURSIVE simplify_transfers(_)
simplify_transfers(transfers) ==
    LET p == find_pair_to_simplify(transfers)
    IN  IF p = None THEN transfers
        ELSE LET i == p[1][1]
                 j == p[1][2]
             IN  simplify_transfers(
                     RemoveAt([transfers EXCEPT ![i].to = transfers[j].to], j))

\* sort_transfers.  SortStart is lines 532-538, SortStep one turn of the
\* while loop on the state [waits, queue, result].
RECURSIVE SortCount(_, _)
SortCount(transfers, waits) ==
    IF transfers = << >> THEN waits
    ELSE LET e == Head(transfers)
             w1 == Put(waits, e.to, (IF e.to \in DOMAIN waits THEN waits[e.to] ELSE 0) + 1)
             w2 == IF e.from \in DOMAIN w1 THEN w1 ELSE Put(w1, e.from, 0)
         IN  SortCount(Tail(transfers), w2)

SortStart(transfers) ==
    [waits |-> SortCount(transfers, EmptyMap), queue |-> transfers, result |-> << >>]

\* One turn of the loop without the test of line 541.
SortStep_eager(st) ==
    [waits |-> [st.waits EXCEPT ![Head(st.queue).to] = @ - 1],
     queue |-> Tail(st.queue),
     result |-> Append(st.result, Head(st.queue))]

SortStep(st) ==
    LET e == Head(st.queue)
    IN  IF st.waits[e.from] = 0
        THEN [waits |-> [st.waits EXCEPT ![e.to] = @ - 1],
              queue |-> Tail(st.queue),
              result |-> Append(st.result, e)]
        ELSE [waits |-> st.waits,
              queue |-> Append(Tail(st.queue), e),
              result |-> st.result]

\* The loop run to its end.  idle counts the turns since the last transfer
\* was emitted: after a full round of the queue without one the state
\* repeats and the loop never ends (ok is FALSE).
RECURSIVE SortRun(_, _)
SortRun(st, idle) ==
    IF st.queue = << >> THEN [ok |-> TRUE, result |-> st.result]
    ELSE IF idle >= Len(st.queue) THEN [ok |-> FALSE, result |-> st.result]
         ELSE LET nx == SortStep(st)
              IN  SortRun(nx, IF Len(nx.result) > Len(st.result) THEN 0 ELSE idle + 1)

sort_transfers(transfers) == SortRun(SortStart(transfers), 0)

\* ------------------------------------------------------------ compute_flow
VARIABLES
    edges,                  \* the EdgeDB handed to compute_flow
    source, sink,           \* its arguments
    requested_flow, max_distance, max_transfers,
    pc,                     \* where the call is
    levels,                 \* the result of the last bfs_level_graph
    max_flow,               \* dinic_max_flow's max_flow
    flow_distribution,      \* dinic_max_flow's flow_distribution
    capacity_adjustments,   \* Adjacencies.capacity_adjustments
    flow, transfers,        \* the pair compute_flow returns
    sorting,                \* sort_transfers' waits, queue and result
    account_balances,       \* extract_transfers' account_balances
    args, ret               \* the arguments and the result of a call of
                            \* prune_edge or reduce_transfers by itself

\* The Adjacencies value compute_flow builds at line 37 and dinic_max_flow
\* updates.
adjacencies == [edges |-> edges, capacity_adjustments |-> capacity_adjustments]

vars == << edges, source, sink, requested_flow, max_distance, max_transfers, pc,
           levels, max_flow, flow_distribution, capacity_adjustments, flow,
           transfers, sorting, account_balances, args, ret >>

\* The inputs: every EdgeDB::new of at most MaxRows rows between distinct
\* addresses (rows in ascending order, a row may repeat a triple).
SourceAddr == 1
MaxRequested == 1
MaxTransfersArg == 1

Rows == {r \in [from : Address, to : Address, token : Token, capacity : 1..MaxCap] :
            r.from # r.to}

RowLeq(x, y) == x = y \/ EdgeLess(x, y)

RowSeqs ==
    UNION {{es \in [1..n -> Rows] : \A i \in 1..(n - 1) : RowLeq(es[i], es[i + 1])} :
              n \in 0..MaxRows}

RequestedFlows == (0..MaxRequested) \cup {U256_MAX}
MaxDistances == {None, Some(MaxDist)}
MaxTransfers == {None} \cup {Some(m) : m \in 0..MaxTransfersArg}

\* Before the call: an empty EdgeDB, no arguments yet.
Init ==
    /\ edges = EdgeDB_new(<< >>)
    /\ source = SourceAddr
    /\ sink = SourceAddr
    /\ requested_flow = 0
    /\ max_distance = None
    /\ max_transfers = None
    /\ pc = "call"
    /\ levels = None
    /\ max_flow = 0
    /\ flow_distribution = EmptyMap
    /\ capacity_adjustments = EmptyMap
    /\ flow = 0
    /\ transfers = << >>
    /\ sorting = SortStart(<< >>)
    /\ account_balances = EmptyMap
    /\ args = << >>
    /\ ret = << >>

\* The call of compute_flow with its arguments, up to the loop of
\* dinic_max_flow: Adjacencies::new (line 37), max_flow and flow_distribution
\* (flow.rs lines 102-103).
Call ==
    /\ pc = "call"
    /\ edges' \in {EdgeDB_new(es) : es \in RowSeqs}
    /\ sink' \in Address
    /\ requested_flow' \in RequestedFlows
    /\ max_distance' \in MaxDistances
    /\ max_transfers' \in MaxTransfers
    /\ capacity_adjustments' = EmptyMap
    /\ max_flow' = 0
    /\ flow_distribution' = EmptyMap
    /\ pc' = "bfs"
    /\ UNCHANGED << account_balances, args, ret,
                    source, levels, flow, transfers, sorting >>

\* dinic_max_flow, line 107: the level graph, or the break out of the loop.
Bfs ==
    /\ pc = "bfs"
    /\ levels' = bfs_level_graph(adjacencies, NodeNode(source), NodeNode(sink), max_distance)
    /\ pc' = IF levels' = None THEN "post" ELSE "dfs"
    /\ UNCHANGED << account_balances, args, ret,
                    edges, source, sink, requested_flow, max_distance, max_transfers,
                    max_flow, flow_distribution, capacity_adjustments, flow,
                    transfers, sorting >>

\* dinic_max_flow, lines 113-121: one call of dfs_search_blocking_flow from
\* the source.  Some(flow) is added to max_flow and the inner loop goes on;
\* None ends the inner loop; a missing level aborts.
Dfs ==
    /\ pc = "dfs"
    /\ \E o \in DfsOutcomes(adjacencies, levels[1], NodeNode(source), NodeNode(sink)) :
        IF o.kind = "some"
        THEN \E f \in {PathFlow(adjacencies, o.path, 1, U256_MAX)} :
             \E st \in {DfsUnwind(o.path, Len(o.path) - 1, f,
                                  [adj |-> capacity_adjustments,
                                   fd |-> flow_distribution])} :
                 /\ capacity_adjustments' = st.adj
                 /\ flow_distribution' = st.fd
                 /\ max_flow' = UAdd(max_flow, f)
                 /\ pc' = "dfs"
        ELSE /\ pc' = IF o.kind = "none" THEN "bfs" ELSE "abort"
             /\ UNCHANGED << capacity_adjustments, flow_distribution, max_flow >>
    /\ UNCHANGED << account_balances, args, ret,
                    edges, source, sink, requested_flow, max_distance, max_transfers,
                    levels, flow, transfers, sorting >>

\* All orders of a finite set.
RECURSIVE Orders(_)
Orders(S) ==
    IF S = {} THEN {<< >>}
    ELSE UNION {{<< x >> \o o : o \in Orders(S \ {x})} : x \in S}

\* compute_flow, lines 47-76, on what dinic_max_flow returned.  status is
\* "done" (a return), "abort" (a panic) or "diverge" (sort_transfers never
\* ends).  prune_flow and reduce_transfers get used_edges.clone(): what
\* they remove is dropped, only the amounts they return are kept.
ComputeFlowEnd(flow2, pruned_ok, ex_ok, sorted) ==
    IF ~pruned_ok \/ ~ex_ok
    THEN [status |-> "abort", flow |-> flow2, transfers |-> << >>]
    ELSE IF ~sorted.ok
         THEN [status |-> "diverge", flow |-> flow2, transfers |-> << >>]
         ELSE [status |-> "done", flow |-> flow2, transfers |-> sorted.result]

ComputeFlowTransfers(src, snk, used_edges, pruned_ok, flow2) ==
    The({ComputeFlowEnd(flow2, pruned_ok, ex.ok,
                        sort_transfers(simplify_transfers(ex.transfers))) :
           ex \in {IF flow2 = 0
                   THEN [ok |-> TRUE, transfers |-> << >>]
                   ELSE extract_transfers(src, snk, flow2, used_edges)}})

ComputeFlowReduce(src, snk, max_tr, used_edges, pruned_ok, flow1) ==
    ComputeFlowTransfers(src, snk, used_edges, pruned_ok,
        USub(flow1, IF max_tr # None
                    THEN reduce_transfers(max_tr[1] * 3, used_edges).lost
                    ELSE 0))

compute_flow_rest(src, snk, requested, max_tr, dinic_flow, used_edges, ord) ==
    IF dinic_flow > requested
    THEN The({ComputeFlowReduce(src, snk, max_tr, used_edges, pruned.ok,
                                UAdd(requested, pruned.rest)) :
                pruned \in {prune_flow(src, snk, USub(dinic_flow, requested),
                                       used_edges, ord)}})
    ELSE ComputeFlowReduce(src, snk, max_tr, used_edges, TRUE, dinic_flow)

Return ==
    /\ pc = "post"
    /\ \E ord \in (IF max_flow > requested_flow
                   THEN Orders(AllEdges(flow_distribution)) ELSE {<< >>}) :
        \E r \in {compute_flow_rest(source, sink, requested_flow, max_transfers,
                                    max_flow, flow_distribution, ord)} :
            /\ pc' = r.status
            /\ flow' = r.flow
            /\ transfers' = r.transfers
    /\ UNCHANGED << account_balances, args, ret,
                    edges, source, sink, requested_flow, max_distance, max_transfers,
                    levels, max_flow, flow_distribution, capacity_adjustments,
                    sorting >>

Next == Call \/ Bfs \/ Dfs \/ Return

Spec == Init /\ [][Next]_vars

\* Whether compute_flow is called is up to the caller; a call that was made
\* runs on: a step of it that can be taken is taken.
FairSpec == Spec /\ WF_vars(Bfs \/ Dfs \/ Return)

\* ---------------------------------------------------- the transfer pipeline
\* Lines 73-75 of compute_flow on a transfer list of their own:
\* simplify_transfers, then sort_transfers one turn of its loop at a time.
Triple(e) == << e.from, e.token, e.to >>

RowSet(db) == {db.edges[i] : i \in 1..Len(db.edges)}

\* The lists extract_transfers hands on for an EdgeDB: one transfer per
\* triple, on a row of the EdgeDB and of at most its capacity, in any order.
TransferLists(db) ==
    LET cands == {e \in [from : Address, to : Address, token : Token,
                         capacity : 1..MaxCap] :
                    \E r \in RowSet(db) :
                        Triple(r) = Triple(e) /\ e.capacity <= r.capacity}
    IN  UNION {{xs \in [1..n -> cands] :
                  \A i, j \in 1..n : i # j => Triple(xs[i]) # Triple(xs[j])} :
               n \in 0..MaxRows}

\* The call of the pipeline on one of these lists.
Extracted ==
    /\ pc = "call"
    /\ edges' \in {EdgeDB_new(es) : es \in RowSeqs}
    /\ transfers' \in TransferLists(edges')
    /\ pc' = "extracted"
    /\ UNCHANGED << account_balances, args, ret,
                    source, sink, requested_flow, max_distance, max_transfers,
                    levels, max_flow, flow_distribution, capacity_adjustments, flow,
                    sorting >>

\* Line 73.
Simplify ==
    /\ pc = "extracted"
    /\ transfers' = simplify_transfers(transfers)
    /\ pc' = "simplified"
    /\ UNCHANGED << account_balances, args, ret,
                    edges, source, sink, requested_flow, max_distance, max_transfers,
                    levels, max_flow, flow_distribution, capacity_adjustments, flow,
                    sorting >>

\* Line 75, sort_transfers up to its loop (lines 532-538).
SortEnter ==
    /\ pc = "simplified"
    /\ sorting' = SortStart(transfers)
    /\ pc' = "sort"
    /\ UNCHANGED << account_balances, args, ret,
                    edges, source, sink, requested_flow, max_distance, max_transfers,
                    levels, max_flow, flow_distribution, capacity_adjustments, flow,
                    transfers >>

\* One turn of the while loop of sort_transfers (lines 540-547).
SortTurn ==
    /\ pc = "sort"
    /\ sorting.queue # << >>
    /\ sorting' = SortStep(sorting)
    /\ UNCHANGED << account_balances, args, ret,
                    edges, source, sink, requested_flow, max_distance, max_transfers,
                    pc, levels, max_flow, flow_distribution, capacity_adjustments,
                    flow, transfers >>

\* The loop ends on the empty queue and sort_transfers returns result.
SortExit ==
    /\ pc = "sort"
    /\ sorting.queue = << >>
    /\ pc' = "sorted"
    /\ UNCHANGED << account_balances, args, ret,
                    edges, source, sink, requested_flow, max_distance, max_transfers,
                    levels, max_flow, flow_distribution, capacity_adjustments, flow,
                    transfers, sorting >>

TransferNext == Extracted \/ Simplify \/ SortEnter \/ SortTurn \/ SortExit

TransferSpec == Init /\ [][TransferNext]_vars

\* The pipeline, once called, takes every step it can take.
FairTransferSpec ==
    TransferSpec /\ WF_vars(Simplify \/ SortEnter \/ SortTurn \/ SortExit)

\* --------------------------------------------------- the EdgeDB by itself
\* EdgeDB::new on any sequence of at most MaxRows rows, then update calls
\* with any row, of capacity zero too; an update appends while the EdgeDB
\* has at most MaxRows rows.
DbRowSeqs == UNION {[1..n -> Rows] : n \in 0..MaxRows}

UpdateRows ==
    {r \in [from : Address, to : Address, token : Token, capacity : 0..MaxCap] :
        r.from # r.to}

DbNew ==
    /\ pc = "call"
    /\ edges' \in {EdgeDB_new(es) : es \in DbRowSeqs}
    /\ pc' = "db"
    /\ UNCHANGED << account_balances, args, ret,
                    source, sink, requested_flow, max_distance, max_transfers,
                    levels, max_flow, flow_distribution, capacity_adjustments, flow,
                    transfers, sorting >>

DbUpdate ==
    /\ pc = "db"
    /\ \E update \in UpdateRows :
        /\ index_of(edges, update) # None \/ Len(edges.edges) <= MaxRows
        /\ edges' = EdgeDB_update(edges, update)
    /\ UNCHANGED << account_balances, args, ret,
                    source, sink, requested_flow, max_distance, max_transfers, pc,
                    levels, max_flow, flow_distribution, capacity_adjustments, flow,
                    transfers, sorting >>

DbNext == DbNew \/ DbUpdate

DbSpec == Init /\ [][DbNext]_vars

\* ================================================================= claims
\* What a transfer list sends from and delivers to an address.
RECURSIVE SumCap(_)
SumCap(xs) == IF xs = << >> THEN 0 ELSE Head(xs).capacity + SumCap(Tail(xs))

SentBy(xs, a) == SumCap(SelectSeq(xs, LAMBDA e : e.from = a))
ReceivedBy(xs, a) == SumCap(SelectSeq(xs, LAMBDA e : e.to = a))
Net(xs, a) == ReceivedBy(xs, a) - SentBy(xs, a)

\* The lifted network of an EdgeDB and its maximum flow, as the least
\* capacity of a cut between Node(src) and Node(snk).
LiftedNodes(db) ==
    {NodeNode(a) : a \in Address}
        \cup {balance_node(r) : r \in RowSet(db)} \cup {trust_node(r) : r \in RowSet(db)}

LiftedCap(db, u, v) ==
    IF v \in DOMAIN NominalAdjacencies(db, u) THEN NominalAdjacencies(db, u)[v] ELSE 0

RECURSIVE CutSum(_, _)
CutSum(db, pairs) ==
    IF pairs = {} THEN 0
    ELSE LET p == CHOOSE x \in pairs : TRUE
         IN  LiftedCap(db, p[1], p[2]) + CutSum(db, pairs \ {p})

CutCap(db, S) ==
    CutSum(db, {p \in S \X (LiftedNodes(db) \ S) : LiftedCap(db, p[1], p[2]) > 0})

MaxFlowRef(db, src, snk) ==
    LET cuts == {CutCap(db, T \cup {NodeNode(src)}) :
                    T \in SUBSET (LiftedNodes(db) \ {NodeNode(src), NodeNode(snk)})}
    IN  CHOOSE m \in cuts : \A c \in cuts : m <= c

\* The nodes within k lifted edges of positive capacity from the nodes of S.
RECURSIVE ReachWithin(_, _, _)
ReachWithin(db, S, k) ==
    IF k = 0 THEN S
    ELSE ReachWithin(db,
             S \cup {v \in LiftedNodes(db) : \E u \in S : LiftedCap(db, u, v) > 0},
             k - 1)

PathWithin(db, src, snk, max_dist) ==
    NodeNode(snk) \in ReachWithin(db, {NodeNode(src)},
                                  IF max_dist = None
                                  THEN Cardinality(LiftedNodes(db)) ELSE max_dist[1])

C2_SourceAndSinkCarryTheFlow ==
    (IF pc = "bfs" /\ source # sink /\ requested_flow > 0
     THEN PathWithin(edges, source, sink, max_distance) ELSE FALSE)
        ~> (IF pc = "done"
            THEN SentBy(transfers, source) = flow /\ ReceivedBy(transfers, sink) = flow
            ELSE FALSE)

\* C3: with requested_flow = U256::MAX, no max_distance and no max_transfers
\* the call returns the maximum flow of the lifted network.
C3_ReturnsMaxFlow ==
    (IF pc = "bfs" /\ source # sink
     THEN requested_flow = U256_MAX /\ max_distance = None /\ max_transfers = None
     ELSE FALSE)
        ~> (IF pc = "done" THEN flow = MaxFlowRef(edges, source, sink) ELSE FALSE)

\* C4: a positive request below the maximum flow is returned exactly, with a
\* transfer list that is not empty.
C4_RequestBelowMaxIsMet ==
    (IF pc = "bfs" /\ source # sink /\ max_distance = None /\ max_transfers = None
     THEN requested_flow > 0 /\ requested_flow < MaxFlowRef(edges, source, sink)
     ELSE FALSE)
        ~> (IF pc = "done" THEN flow = requested_flow /\ transfers # << >> ELSE FALSE)

\* A transfer whose (from, token, to) is no row of the EdgeDB.
OffRow(db, e) == \A r \in RowSet(db) : Triple(r) # Triple(e)

\* The addresses a chain of rows of one token, each of capacity at least
\* cap, leads to from the addresses of S.
RowStep(db, S, token, cap) ==
    {r.to : r \in {x \in RowSet(db) : x.from \in S /\ x.token = token
                                       /\ x.capacity >= cap}}

RECURSIVE RowChain(_, _, _, _, _)
RowChain(db, S, token, cap, k) ==
    IF k = 0 THEN S
    ELSE RowChain(db, S \cup RowStep(db, S, token, cap), token, cap, k - 1)

FollowsRows(db, e) ==
    e.to \in RowChain(db, RowStep(db, {e.from}, e.token, e.capacity),
                      e.token, e.capacity, Len(db.edges))

C7_DinicTerminates == (pc = "bfs") ~> (pc \notin {"bfs", "dfs"})

\* C8: with no path of positive capacity from source to sink (within
\* max_distance when it is given) the first bfs_level_graph returns None and
\* compute_flow returns flow 0 and no transfers.
C8_NoPathReturnsNothing ==
    [][~PathWithin(edges, source, sink, max_distance) =>
          /\ pc = "bfs" => (pc' = "post" /\ levels' = None)
          /\ pc = "post" => (pc' = "done" /\ flow' = 0 /\ transfers' = << >>)]_vars

C8_Witness ==
    /\ pc = "done"
    /\ max_distance # None
    /\ ~PathWithin(edges, source, sink, max_distance)
    /\ PathWithin(edges, source, sink, None)

\* The transfer graph of a list has no cycle: no transfer's sender is
\* downstream of its recipient.
RECURSIVE Downstream(_, _, _)
Downstream(xs, S, k) ==
    IF k = 0 THEN S
    ELSE Downstream(xs,
             S \cup {xs[i].to : i \in {j \in 1..Len(xs) : xs[j].from \in S}}, k - 1)

Acyclic(xs) ==
    \A i \in 1..Len(xs) : xs[i].from \notin Downstream(xs, {xs[i].to}, Len(xs))

IsPermutation(ys, xs) ==
    /\ Len(ys) = Len(xs)
    /\ \E f \in [1..Len(xs) -> 1..Len(xs)] :
        /\ \A i, j \in 1..Len(xs) : i # j => f[i] # f[j]
        /\ \A i \in 1..Len(xs) : ys[i] = xs[f[i]]

ReceiveBeforeSend(ys) ==
    \A i, j \in 1..Len(ys) : ys[i].to = ys[j].from => i < j

\* C9: on a list without a cycle sort_transfers ends, and its result is a
\* permutation of the list in which x comes before y whenever x.to = y.from.
C9_SortOrdersAcyclicLists ==
    (IF pc = "sort" THEN Acyclic(transfers) ELSE FALSE)
        ~> (IF pc = "sorted"
            THEN IsPermutation(sorting.result, transfers)
                 /\ ReceiveBeforeSend(sorting.result)
            ELSE FALSE)

C9_Witness ==
    /\ pc = "sorted"
    /\ Acyclic(transfers)
    /\ \E i, j \in 1..Len(transfers) : i < j /\ transfers[j].to = transfers[i].from
    /\ sorting.result # transfers

\* C10: a call with max_transfers = Some(m) returns a list of at most m
\* transfers.
C10_AtMostMaxTransfers ==
    (IF pc = "bfs" /\ source # sink THEN max_transfers # None ELSE FALSE)
        ~> (IF pc = "done" /\ max_transfers # None
            THEN Len(transfers) <= max_transfers[1] ELSE FALSE)

\* C11: a call with a max_transfers value, whatever it is, returns: the
\* subtraction flow -= lost does not underflow and no later step aborts.
C11_ReturnsForEveryMaxTransfers ==
    (pc = "bfs" /\ max_transfers # None) ~> (pc = "done")

\* The flow recorded on a lifted edge, 0 when there is no entry.
FlowOn(fd, u, v) == IF HasEdge(fd, u, v) THEN fd[u][v] ELSE 0

\* C12: at every point of dinic_max_flow the flow recorded in
\* flow_distribution on a lifted edge is at most the nominal capacity of
\* that edge.
C12_FlowWithinNominalCapacity ==
    pc \in {"bfs", "dfs"} =>
        \A e \in AllEdges(flow_distribution) :
            flow_distribution[e[1]][e[2]] <= LiftedCap(edges, e[1], e[2])

\* C13: in every EdgeDB that EdgeDB::new and update calls lead to there is
\* at most one row for each (from, to, token).
C13_OneRowPerTriple ==
    pc = "db" =>
        \A i, j \in 1..Len(edges.edges) :
            i # j => ~eq_up_to_capacity(edges.edges[i], edges.edges[j])

\* The positions an index lists for n, and whether a sequence repeats none.
Listed(index, n) == IF n \in DOMAIN index THEN index[n] ELSE << >>

NoRepeat(xs) == \A i, j \in 1..Len(xs) : i # j => xs[i] # xs[j]

\* C14: after EdgeDB::new and any update calls the outgoing index of a node
\* lists exactly the positions of the rows from it and the incoming index
\* exactly the positions of the rows to it, each once, and outgoing(n) and
\* incoming(n) return exactly those rows whose capacity is not zero.
C14_IndicesMatchRows ==
    pc = "db" =>
        \A n \in Address :
            /\ NoRepeat(Listed(edges.outgoing, n))
            /\ NoRepeat(Listed(edges.incoming, n))
            /\ {Listed(edges.outgoing, n)[k] : k \in 1..Len(Listed(edges.outgoing, n))}
                   = {i \in 1..Len(edges.edges) : edges.edges[i].from = n}
            /\ {Listed(edges.incoming, n)[k] : k \in 1..Len(Listed(edges.incoming, n))}
                   = {i \in 1..Len(edges.edges) : edges.edges[i].to = n}
            /\ EdgeDB_outgoing(edges, n)
                   = SelectSeq(edges.edges, LAMBDA e : e.from = n /\ e.capacity # 0)
            /\ EdgeDB_incoming(edges, n)
                   = SelectSeq(edges.edges, LAMBDA e : e.to = n /\ e.capacity # 0)

C14_Witness ==
    /\ pc = "db"
    /\ Len(edges.edges) = MaxRows + 1
    /\ \E i \in 1..Len(edges.edges) :
        /\ edges.edges[i].capacity = 0
        /\ \E j \in 1..Len(edges.edges) :
            j # i /\ edges.edges[j].to = edges.edges[i].to /\ edges.edges[j].capacity # 0

\* The capacity bfs_level_graph and dfs_search_blocking_flow read for the
\* lifted edge (u, v), 0 when the map they get has no entry for v.
ReadCap(u, v) ==
    IF v \in DOMAIN adjacencies_from(adjacencies, u)
    THEN adjacencies_from(adjacencies, u)[v] ELSE 0

\* C15: the capacity read for a lifted edge is its nominal capacity plus the
\* adjust_capacity deltas applied to it: after a push of f over (u, v) the
\* searches see (u, v) reduced by f and (v, u) increased by f.
C15_ReadsNominalPlusOverlay ==
    pc \in {"bfs", "dfs"} =>
        \A u \in DOMAIN capacity_adjustments :
            \A v \in DOMAIN capacity_adjustments[u] :
                ReadCap(u, v) = UAdd(LiftedCap(edges, u, v), capacity_adjustments[u][v])

\* C16: a call of dfs_search_blocking_flow has one outcome, fixed by the
\* order of outgoing_edges_sorted_by_capacity, so that two runs on the same
\* EdgeDB and arguments build the same flow distribution.
C16_DfsHasOneOutcome ==
    pc = "dfs" =>
        Cardinality(DfsOutcomes(adjacencies, levels[1],
                                NodeNode(source), NodeNode(sink))) <= 1

\* The lifted hops bfs_level_graph may take: all of them without a
\* max_distance.
HopBound(db, max_dist) ==
    IF max_dist = None THEN Cardinality(LiftedNodes(db)) ELSE max_dist[1]

\* C17: bfs_level_graph gives the source level 0 and every node it records
\* the length of a shortest path of positive capacity from the source; it
\* records the nodes within max_distance hops and no level above
\* max_distance; it returns None exactly when the sink is not among them.
C17_LevelsAreShortestDistances ==
    /\ pc = "dfs" =>
        /\ levels # None
        /\ levels[1][NodeNode(source)] = 0
        /\ DOMAIN levels[1]
              = ReachWithin(edges, {NodeNode(source)}, HopBound(edges, max_distance))
        /\ \A n \in DOMAIN levels[1] :
              /\ n \in ReachWithin(edges, {NodeNode(source)}, levels[1][n])
              /\ levels[1][n] > 0 =>
                    n \notin ReachWithin(edges, {NodeNode(source)}, levels[1][n] - 1)
              /\ max_distance # None => levels[1][n] <= max_distance[1]
        /\ PathWithin(edges, source, sink, max_distance)
    /\ pc = "post" =>
        /\ levels = None
        /\ ~PathWithin(edges, source, sink, max_distance)

C17_Witness ==
    /\ pc = "dfs"
    /\ max_distance # None
    /\ \E n \in DOMAIN levels[1] :
        /\ levels[1][n] = max_distance[1]
        /\ \E v \in LiftedNodes(edges) :
            LiftedCap(edges, n, v) > 0 /\ v \notin DOMAIN levels[1]

\* ------------------------------- the functions on a flow distribution
\* prune_edge, reduce_transfers and extract_transfers by themselves, on the
\* distributions a flow from source to sink in the lifted network of an
\* EdgeDB can be: up to MaxRoutes routes, each a simple path from Node(source)
\* to Node(sink) or a simple cycle, each carrying an amount, the total on an
\* edge at most its nominal capacity.  Each push adds the amount to the
\* entry of every edge of the route, as lines 139-143 of adjacencies.rs do.
MaxRoutes == 2
MaxExcess == 3
MaxLimit == 6

RECURSIVE SimplePaths(_, _, _, _)
SimplePaths(db, u, snk, seen) ==
    IF u = snk THEN {<< snk >>}
    ELSE UNION {{<< u >> \o p : p \in SimplePaths(db, v, snk, seen \cup {v})} :
                   v \in {w \in LiftedNodes(db) \ seen : LiftedCap(db, u, w) > 0}}

SimpleCycles(db) ==
    UNION {UNION {{<< u >> \o p : p \in SimplePaths(db, v, u, {v})} :
                     v \in {w \in LiftedNodes(db) \ {u} : LiftedCap(db, u, w) > 0}} :
              u \in LiftedNodes(db)}

\* value is what a route adds to the flow from source to sink.
Routes(db, src, snk) ==
    {[path |-> p, amount |-> a, value |-> a] :
        p \in SimplePaths(db, NodeNode(src), NodeNode(snk), {NodeNode(src)}),
        a \in 1..MaxCap}
    \cup {[path |-> c, amount |-> a, value |-> 0] :
            c \in SimpleCycles(db), a \in 1..MaxCap}

RECURSIVE PushRoute(_, _, _, _)
PushRoute(fd, p, i, amount) ==
    IF i >= Len(p) THEN fd
    ELSE PushRoute(adjust_capacity(fd, p[i], p[i + 1], amount), p, i + 1, amount)

RECURSIVE PushRoutes(_, _)
PushRoutes(fd, rs) ==
    IF rs = << >> THEN fd
    ELSE PushRoutes(PushRoute(fd, Head(rs).path, 1, Head(rs).amount), Tail(rs))

RECURSIVE RoutesValue(_)
RoutesValue(rs) == IF rs = << >> THEN 0 ELSE Head(rs).value + RoutesValue(Tail(rs))

RECURSIVE RoutesLoad(_, _, _)
RoutesLoad(rs, u, v) ==
    IF rs = << >> THEN 0
    ELSE (IF \E i \in 1..(Len(Head(rs).path) - 1) :
                Head(rs).path[i] = u /\ Head(rs).path[i + 1] = v
          THEN Head(rs).amount ELSE 0) + RoutesLoad(Tail(rs), u, v)

RoutesFit(db, rs) ==
    \A u, v \in LiftedNodes(db) : RoutesLoad(rs, u, v) <= LiftedCap(db, u, v)

FlowDistributions(db, src, snk) ==
    {[used |-> PushRoutes(EmptyMap, rs), amount |-> RoutesValue(rs)] :
        rs \in {x \in UNION {[1..n -> Routes(db, src, snk)] : n \in 0..MaxRoutes} :
                  RoutesFit(db, x)}}

\* dinic_max_flow has returned max_flow and flow_distribution.
Distributed ==
    /\ pc = "call"
    /\ edges' \in {EdgeDB_new(es) : es \in RowSeqs}
    /\ sink' \in Address \ {source}
    /\ \E d \in FlowDistributions(edges', source, sink') :
        /\ flow_distribution' = d.used
        /\ max_flow' = d.amount
    /\ pc' = "used"
    /\ UNCHANGED << source, requested_flow, max_distance, max_transfers, levels,
                    capacity_adjustments, flow, transfers, sorting,
                    account_balances, args, ret >>

\* A call of prune_edge on an edge of the distribution.
PruneEdge ==
    /\ pc = "used"
    /\ \E e \in AllEdges(flow_distribution), excess \in 1..MaxExcess :
        \E r \in {prune_edge(flow_distribution, e[1], e[2], excess)} :
            /\ flow_distribution' = r.used
            /\ ret' = r.rest
            /\ args' = [used |-> flow_distribution, a |-> e[1], b |-> e[2],
                        excess |-> excess]
    /\ pc' = "pruned"
    /\ UNCHANGED << edges, source, sink, requested_flow, max_distance,
                    max_transfers, levels, max_flow, capacity_adjustments, flow,
                    transfers, sorting, account_balances >>

\* A call of reduce_transfers on the distribution.
ReduceTransfers ==
    /\ pc = "used"
    /\ \E limit \in 0..MaxLimit :
        \E r \in {reduce_transfers(limit, flow_distribution)} :
            /\ flow_distribution' = r.used
            /\ ret' = r.lost
            /\ args' = [used |-> flow_distribution, limit |-> limit]
    /\ pc' = "reduced"
    /\ UNCHANGED << edges, source, sink, requested_flow, max_distance,
                    max_transfers, levels, max_flow, capacity_adjustments, flow,
                    transfers, sorting, account_balances >>

\* extract_transfers one turn of its loop at a time.  The condition of the
\* while loop (lines 449-450):
ExtractGoesOn(snk, balances) ==
    balances # EmptyMap
        /\ (Cardinality(DOMAIN balances) > 1 \/ snk \notin DOMAIN balances)

\* Lines 453-466 for the edge next_full_capacity_edge returned; ok is FALSE
\* when an assert fails.
ExtractOnce(used, balances, done, edge) ==
    LET b1 == [balances EXCEPT ![edge.from] = USub(@, edge.capacity)]
        b2 == Put(b1, edge.to,
                  UAdd(IF edge.to \in DOMAIN b1 THEN b1[edge.to] ELSE 0,
                       edge.capacity))
        bn == BalanceNode(edge.from, edge.token)
        tn == TrustNode(edge.to, edge.token)
    IN  IF balances[edge.from] < edge.capacity \/ ~HasEdge(used, bn, tn)
        THEN [ok |-> FALSE, used |-> used, balances |-> balances, transfers |-> done]
        ELSE [ok |-> TRUE,
              used |-> [used EXCEPT ![bn] = Del(used[bn], tn)],
              balances |-> [a \in {x \in DOMAIN b2 : b2[x] > 0} |-> b2[a]],
              transfers |-> Append(done, edge)]

\* compute_flow, lines 67-71: the call of extract_transfers with the flow
\* and its distribution, when the flow is not zero (lines 445-447).
ExtractEnter ==
    /\ pc = "used"
    /\ max_flow # 0
    /\ account_balances' = Put(EmptyMap, source, max_flow)
    /\ transfers' = << >>
    /\ args' = [used |-> flow_distribution]
    /\ pc' = "extract"
    /\ UNCHANGED << edges, source, sink, requested_flow, max_distance,
                    max_transfers, levels, max_flow, flow_distribution,
                    capacity_adjustments, flow, sorting, ret >>

\* One turn of the while loop (lines 452-466); panic!() of line 500 and the
\* asserts abort.
ExtractTurn ==
    /\ pc = "extract"
    /\ ExtractGoesOn(sink, account_balances)
    /\ \E n \in {next_full_capacity_edge(flow_distribution, account_balances)} :
        IF n.kind = "panic"
        THEN /\ pc' = "abort"
             /\ UNCHANGED << flow_distribution, account_balances, transfers >>
        ELSE \E r \in {ExtractOnce(flow_distribution, account_balances, transfers,
                                   n.edge)} :
                /\ pc' = IF r.ok THEN "extract" ELSE "abort"
                /\ flow_distribution' = r.used
                /\ account_balances' = r.balances
                /\ transfers' = r.transfers
    /\ UNCHANGED << edges, source, sink, requested_flow, max_distance,
                    max_transfers, levels, max_flow, capacity_adjustments, flow,
                    sorting, args, ret >>

\* The loop ends and extract_transfers returns transfers (line 469).
ExtractExit ==
    /\ pc = "extract"
    /\ ~ExtractGoesOn(sink, account_balances)
    /\ pc' = "transfers"
    /\ UNCHANGED << edges, source, sink, requested_flow, max_distance,
                    max_transfers, levels, max_flow, flow_distribution,
                    capacity_adjustments, flow, transfers, sorting,
                    account_balances, args, ret >>

DistNext ==
    Distributed \/ PruneEdge \/ ReduceTransfers \/ ExtractEnter \/ ExtractTurn
        \/ ExtractExit

DistSpec == Init /\ [][DistNext]_vars

\* What a distribution carries into and out of a node.
RECURSIVE SumFlow(_, _)
SumFlow(fd, pairs) ==
    IF pairs = {} THEN 0
    ELSE LET e == CHOOSE x \in pairs : TRUE
         IN  fd[e[1]][e[2]] + SumFlow(fd, pairs \ {e})

InFlow(fd, n) == SumFlow(fd, {e \in AllEdges(fd) : e[2] = n})
OutFlow(fd, n) == SumFlow(fd, {e \in AllEdges(fd) : e[1] = n})

FlowNodes(fd) == {e[1] : e \in AllEdges(fd)} \cup {e[2] : e \in AllEdges(fd)}

\* Flow is conserved at every node other than source and sink.
Conserved(fd, src, snk) ==
    \A n \in FlowNodes(fd) \ {NodeNode(src), NodeNode(snk)} :
        InFlow(fd, n) = OutFlow(fd, n)

\* No node of the distribution is reached from itself.
RECURSIVE FlowReach(_, _, _)
FlowReach(fd, S, k) ==
    IF k = 0 THEN S
    ELSE FlowReach(fd, S \cup {e[2] : e \in {x \in AllEdges(fd) : x[1] \in S}}, k - 1)

AcyclicFlow(fd) ==
    \A e \in AllEdges(fd) :
        e[1] \notin FlowReach(fd, {e[2]}, Cardinality(FlowNodes(fd)))

PruneTake == Min2(args.excess, args.used[args.a][args.b])

C19_ReduceLeavesAtMostLimit ==
    pc = "reduced" =>
        /\ Cardinality(AllEdges(flow_distribution)) <= args.limit
        /\ (Cardinality(AllEdges(args.used)) <= args.limit
              => (flow_distribution = args.used /\ ret = 0))

\* ---------------------------------------------- extract_transfers alone
\* extract_transfers on the distributions of EdgeDBs of up to MaxFlowRows
\* rows, where an account can receive over two edges what it sends over one.
\* The rows have the capacity MaxCap: extract_transfers reads the
\* distribution only, and what fits rows of a smaller capacity fits these.
MaxFlowRows == 3

FlowRowSeqs ==
    UNION {{es \in [1..n -> {r \in Rows : r.capacity = MaxCap}] :
                \A i \in 1..(n - 1) : RowLeq(es[i], es[i + 1])} :
              n \in 0..MaxFlowRows}

\* compute_flow is called with an EdgeDB, a source and a sink (lines 29-37).
ExtractArgs ==
    /\ pc = "call"
    /\ edges' \in {EdgeDB_new(es) : es \in FlowRowSeqs}
    /\ source' \in Address
    /\ sink' \in Address \ {source'}
    /\ pc' = "net"
    /\ UNCHANGED << requested_flow, max_distance, max_transfers, levels, max_flow,
                    flow_distribution, capacity_adjustments, flow, transfers,
                    sorting, account_balances, args, ret >>

\* compute_flow, lines 67-71, after dinic_max_flow has returned a flow that
\* is not zero and its distribution: extract_transfers is entered (lines
\* 445-447).
ExtractCall ==
    /\ pc = "net"
    /\ \E d \in FlowDistributions(edges, source, sink) :
        /\ d.amount # 0
        /\ flow_distribution' = d.used
        /\ max_flow' = d.amount
        /\ args' = [used |-> d.used]
        /\ account_balances' = Put(EmptyMap, source, d.amount)
    /\ transfers' = << >>
    /\ pc' = "extract"
    /\ UNCHANGED << edges, source, sink, requested_flow, max_distance,
                    max_transfers, levels, capacity_adjustments, flow, sorting,
                    ret >>

ExtractNext == ExtractArgs \/ ExtractCall \/ ExtractTurn \/ ExtractExit

ExtractSpec == Init /\ [][ExtractNext]_vars

\* extract_transfers, once called, runs on.
FairExtractSpec == ExtractSpec /\ WF_vars(ExtractTurn \/ ExtractExit)

\* The total of the balances of the accounts.
RECURSIVE BalanceTotal(_)
BalanceTotal(balances) ==
    IF balances = EmptyMap THEN 0
    ELSE LET a == CHOOSE x \in DOMAIN balances : TRUE
         IN  balances[a] + BalanceTotal(Del(balances, a))

\* extract_transfers was called with an acyclic, conserved flow of value
\* max_flow from source to sink.
C20_OnAcyclicFlow ==
    IF pc \in {"extract", "transfers", "abort"}
    THEN /\ AcyclicFlow(args.used)
         /\ Conserved(args.used, source, sink)
         /\ OutFlow(args.used, NodeNode(source)) = max_flow
         /\ InFlow(args.used, NodeNode(sink)) = max_flow
    ELSE FALSE

\* One turn of the loop: a Balance->Trust entry with a flow of at most the
\* balance of its account goes, the rest of the distribution stays, and the
\* balances still add up to the amount.
C20_Turn ==
    (C20_OnAcyclicFlow /\ pc = "extract" /\ ExtractGoesOn(sink, account_balances)) =>
        /\ pc' = "extract"
        /\ \E e \in AllEdges(flow_distribution) :
            /\ IsBalanceNode(e[1]) /\ IsTrustNode(e[2])
            /\ e[1][2] \in DOMAIN account_balances
            /\ flow_distribution[e[1]][e[2]] <= account_balances[e[1][2]]
            /\ AllEdges(flow_distribution') = AllEdges(flow_distribution) \ {e}
            /\ \A x \in AllEdges(flow_distribution') :
                  flow_distribution'[x[1]][x[2]] = flow_distribution[x[1]][x[2]]
        /\ BalanceTotal(account_balances') = max_flow

\* C20: on an acyclic, conserved flow of value amount from source to sink,
\* extract_transfers terminates without aborting: each turn of its loop
\* removes exactly one Balance->Trust entry whose flow is at most the balance
\* of the chosen account, the balances add up to amount throughout, and the
\* loop ends with the whole amount held by the sink.
C20_ExtractTerminates ==
    /\ [][C20_Turn]_vars
    /\ [](C20_OnAcyclicFlow => (pc # "abort" /\ BalanceTotal(account_balances) = max_flow))
    /\ (C20_OnAcyclicFlow /\ pc = "extract")
          ~> (IF pc = "transfers"
              THEN account_balances = Put(EmptyMap, sink, max_flow)
              ELSE FALSE)

\* extract_transfers has returned after a turn in which the first account
\* holding a balance, one before the source in the order of the addresses,
\* could not yet send it on: what it had received was less than the flow of
\* its only outgoing entry.
C20_Witness ==
    /\ pc = "transfers"
    /\ C20_OnAcyclicFlow
    /\ account_balances = Put(EmptyMap, sink, max_flow)
    /\ Len(transfers) = MaxFlowRows
    /\ \E i \in 1..Len(transfers) :
          /\ transfers[i].from < source
          /\ \E j \in 1..(i - 1), k \in 1..(i - 1) :
                /\ j < k
                /\ transfers[j].to = transfers[i].from
                /\ transfers[k].to = transfers[i].from
                /\ transfers[i].capacity = transfers[j].capacity + transfers[k].capacity

\* ------------------------------------------- the level graph and the DFS
\* dinic_max_flow on EdgeDBs of up to MaxFlowRows rows with a max_distance
\* of MaxLevelDist, where the sink is found at level 3 and another account
\* of that level has rows of its own.  The rows have the capacity MaxCap:
\* the levels and the lookups of the DFS depend on a capacity only through
\* its being positive.
MaxLevelDist == 3

\* compute_flow is called (lines 29-45) and dinic_max_flow starts (lines
\* 102-103).
LevelCall ==
    /\ pc = "call"
    /\ edges' \in {EdgeDB_new(es) : es \in FlowRowSeqs}
    /\ sink' \in Address
    /\ max_distance' \in {None, Some(MaxLevelDist)}
    /\ capacity_adjustments' = EmptyMap
    /\ max_flow' = 0
    /\ flow_distribution' = EmptyMap
    /\ pc' = "bfs"
    /\ UNCHANGED << source, requested_flow, max_transfers, levels, flow,
                    transfers, sorting, account_balances, args, ret >>

LevelNext == LevelCall \/ Bfs \/ Dfs

LevelSpec == Init /\ [][LevelNext]_vars

\* C21: every neighbour whose level dfs_search_blocking_flow looks up is a
\* key of the level map bfs_level_graph returned, also when max_distance
\* kept the BFS from expanding the nodes of level max_distance, and so the
\* DFS never aborts on a missing level.
C21_DfsFindsEveryLevel ==
    /\ pc = "dfs" =>
          \A u \in DfsVisited(adjacencies, levels[1], NodeNode(sink), NodeNode(source))
                      \ {NodeNode(sink)} :
              DOMAIN adjacencies_from(adjacencies, u) \subseteq DOMAIN levels[1]
    /\ pc # "abort"

====
